---- MODULE Spec2Model ----
(***************************************************************************)
(* Persist-then-publish write path of the user microservice:               *)
(* UserHandler -> UserService -> DynamoUserRepository (table "Users")      *)
(*                            -> KafkaProducer (topic "user-events").      *)
(* Each request is a process: its repository call is one atomic step at    *)
(* the store, its publishEvent call one atomic step at the producer.       *)
(***************************************************************************)
EXTENDS Integers, Sequences, FiniteSets, TLC

\* ---------------------------------------------------------------- bounds
MaxRequests == 3

Requests == 1..MaxRequests

\* requests that run under the environment that may cancel a request's
\* context and leave a store call unanswered
MaxEnvRequests == 2

EnvRequests == 1..MaxEnvRequests

\* ------------------------------------------------------------ input sets
Ids == {"1", "2"}

\* a Go []string: the nil slice and a non-empty one
NilSlice == [isNil |-> TRUE, elems |-> <<>>]

AdminOnly == [isNil |-> FALSE, elems |-> <<"admin">>]

\* models.User values the requests carry: two different records for id "1",
\* one of them with an empty field and a nil slice; id "2" is only read and
\* deleted
User ==
    { [ID |-> "1", Name |-> "John", Email |-> "john@example.com", Policies |-> AdminOnly],
      [ID |-> "1", Name |-> "Ann", Email |-> "", Policies |-> NilSlice] }

\* the zero value of models.User with only ID set: models.User{ID: id}
UserWithID(id) == [ID |-> id, Name |-> "", Email |-> "", Policies |-> NilSlice]

\* Go's nil error / nil pointer
Nil == "nil"

NoUser == [ID |-> "", Name |-> "", Email |-> "", Policies |-> NilSlice]

\* ------------------------------------------------------ error values
\* error returned by the DynamoDB client when the request cannot be served
ErrRequest == "RequestError: send request failed"

\* error returned by DynamoDB when an item or key does not match the table's
\* key schema
ErrValidation == "ValidationException"

\* errors.New("user not found")
ErrUserNotFound == "user not found"

\* error returned by Writer.WriteMessages when the message is not written
ErrWrite == "kafka: write failed"

\* error returned by the DynamoDB client when the call's ctx is cancelled
ErrCanceled == "RequestCanceled: request context canceled"

\* outcomes of one call on the DynamoDB client, decided by the environment
Faults == {"none", "io"}

FaultErr(fault) == IF fault = "canceled" THEN ErrCanceled ELSE ErrRequest

\* ------------------------------------------------- attribute marshalling
\* dynamodbattribute encodes a Go string as S, the empty string as NULL
AvString(s) == IF s = "" THEN [t |-> "NULL", s |-> "", l |-> <<>>]
               ELSE [t |-> "S", s |-> s, l |-> <<>>]

\* dynamodbattribute encodes a nil slice as NULL, another slice as L
AvList(p) == IF p.isNil THEN [t |-> "NULL", s |-> "", l |-> <<>>]
             ELSE [t |-> "L", s |-> "", l |-> p.elems]

\* a marshalling that stores no email
MarshalMap_NoEmail(user) ==
    [id |-> AvString(user.ID), name |-> AvString(user.Name),
     email |-> AvString(""), policies |-> AvList(user.Policies)]

\* dynamodbattribute.MarshalMap(user): the attribute names are the json tags
\* of models.User
MarshalMap(user) ==
    [id |-> AvString(user.ID), name |-> AvString(user.Name),
     email |-> AvString(user.Email), policies |-> AvList(user.Policies)]

AvToString(av) == IF av.t = "S" THEN av.s ELSE ""

AvToSlice(av) == IF av.t = "L" THEN [isNil |-> FALSE, elems |-> av.l]
                 ELSE NilSlice

\* dynamodbattribute.UnmarshalMap(item, &user)
UnmarshalMap(item) ==
    [ID |-> AvToString(item.id), Name |-> AvToString(item.name),
     Email |-> AvToString(item.email), Policies |-> AvToSlice(item.policies)]

\* the primary-key map GetUser and DeleteUser build: one attribute named "ID"
KeyAttrName == "ID"

UserKey(id) == [name |-> KeyAttrName, av |-> AvString(id)]

\* ------------------------------------------------------ json marshalling
JsonString(s) == [t |-> "string", s |-> s, a |-> <<>>]

JsonSlice(p) == IF p.isNil THEN [t |-> "null", s |-> "", a |-> <<>>]
                ELSE [t |-> "array", s |-> "", a |-> p.elems]

\* json.Marshal(user): a JSON object with one member per field of
\* models.User (no field is tagged omitempty)
JsonMarshal(user) ==
    [id |-> JsonString(user.ID), name |-> JsonString(user.Name),
     email |-> JsonString(user.Email), policies |-> JsonSlice(user.Policies)]

\* ------------------------------------------------------------- handlers
\* http.StatusCreated, http.StatusOK, http.StatusNotFound,
\* http.StatusInternalServerError
StatusCreated == 201

StatusOK == 200

StatusNotFound == 404

StatusInternalServerError == 500

\* no response written: the operation has no handler, or has not returned
NoStatus == 0

\* UserHandler.CreateUser after the body has been decoded: the status it
\* writes for the error the service returned
HandlerCreateUser(err) ==
    IF err # Nil THEN StatusInternalServerError ELSE StatusCreated

\* the read handler.  UserHandler.GetUser's body is omitted in the source;
\* the read handler the repository shows is EPMHandler.GetPolicy, which
\* answers 404 for every error of the service and 200 otherwise
HandlerGetUser(err) ==
    IF err # Nil THEN StatusNotFound ELSE StatusOK

\* the status the caller of operation op sees for the service's error; the
\* source has no handler for update and delete
HandlerStatus(op, err) ==
    IF op = "CreateUser" THEN HandlerCreateUser(err)
    ELSE IF op = "GetUser" THEN HandlerGetUser(err)
    ELSE NoStatus

\* ------------------------------------------------------------------ state
VARIABLES
    keySchema,  \* name of the hash-key attribute of table "Users"
    table,      \* table "Users": key value -> item, or NoItem
    topic,      \* messages written to topic "user-events", in order
    logs,       \* lines written by log.Printf
    req,        \* per request: position, operation, arguments, results
    hist,       \* repository calls in the order they took effect
    books,      \* table "book" of the book service: isbn -> row, or NoBook
    resp        \* the last response to GET /book/{isbn}

vars == <<keySchema, table, topic, logs, req, hist, books, resp>>

NoItem == [id |-> AvString(""), name |-> AvString(""),
           email |-> AvString(""), policies |-> AvList(NilSlice)]

\* ------------------------------------------------------------ book service
ISBNs == {"123456789", "987654321"}

\* no row of table "book" for an isbn
NoBook == [isbn |-> "", name |-> "", image |-> "", genre |-> "", year_published |-> 0]

\* rows of table "book" for an isbn
BookRows(isbn) ==
    [isbn : {isbn}, name : {"Akshay Shetty", "Testing"}, image : {"testing.jpg"},
     genre : {"Action"}, year_published : {1980, 2024}]

\* no GET /book/{isbn} answered yet; row is what the table held for the isbn
\* when the request was served
NoResp == [route |-> "none", isbn |-> "", row |-> NoBook,
           status |-> NoStatus, body |-> [code |-> "", message |-> <<>>]]

\* attribute names a table "Users" may be keyed by
KeyNames == {"ID", "id"}

\* a request that has been received and has not called the repository yet
IdleReq == [pc |-> "Received", op |-> "none", id |-> "", user |-> NoUser,
            evType |-> "", evUser |-> NoUser,
            repoErr |-> Nil, pubErr |-> Nil, err |-> Nil, out |-> NoUser,
            attempts |-> 0, status |-> NoStatus, cancelled |-> FALSE]

Init ==
    /\ keySchema \in KeyNames
    /\ table = [k \in Ids |-> NoItem]
    /\ topic = <<>>
    /\ logs = <<>>
    /\ req = [r \in Requests |-> IdleReq]
    /\ hist = <<>>
    /\ books = [i \in ISBNs |-> NoBook]
    /\ resp = NoResp

\* ------------------------------------------------------- DynamoDB client
\* an item carries the table's key when it has an attribute of that name
\* holding a string
HasKey(item) == keySchema \in DOMAIN item /\ item[keySchema].t = "S"

\* a store that keeps the stored value of an attribute the new item holds as
\* NULL
PutItem_Merge(tbl, item, fault) ==
    IF fault # "none" THEN [err |-> FaultErr(fault), table |-> tbl]
    ELSE IF ~HasKey(item) THEN [err |-> ErrValidation, table |-> tbl]
    ELSE LET old == tbl[item[keySchema].s]
             merged == [a \in DOMAIN item |->
                          IF item[a].t = "NULL" THEN old[a] ELSE item[a]]
         IN [err |-> Nil, table |-> [tbl EXCEPT ![item[keySchema].s] = merged]]

\* db.PutItemWithContext(ctx, {Item: item, TableName: "Users"})
PutItem(tbl, item, fault) ==
    IF fault # "none" THEN [err |-> FaultErr(fault), table |-> tbl]
    ELSE IF ~HasKey(item) THEN [err |-> ErrValidation, table |-> tbl]
    ELSE [err |-> Nil, table |-> [tbl EXCEPT ![item[keySchema].s] = item]]

\* db.GetItemWithContext(ctx, {Key: key, TableName: "Users"})
GetItem(tbl, key, fault) ==
    IF fault # "none" THEN [err |-> FaultErr(fault), item |-> NoItem]
    ELSE IF key.name # keySchema \/ key.av.t # "S"
         THEN [err |-> ErrValidation, item |-> NoItem]
    ELSE [err |-> Nil, item |-> tbl[key.av.s]]

\* db.DeleteItemWithContext(ctx, {Key: key, TableName: "Users"})
DeleteItem(tbl, key, fault) ==
    IF fault # "none" THEN [err |-> FaultErr(fault), table |-> tbl]
    ELSE IF key.name # keySchema \/ key.av.t # "S"
         THEN [err |-> ErrValidation, table |-> tbl]
    ELSE [err |-> Nil, table |-> [tbl EXCEPT ![key.av.s] = NoItem]]

\* -------------------------------------------------- DynamoUserRepository
RepoCreateUser(tbl, user, fault) == PutItem(tbl, MarshalMap(user), fault)

RepoGetUser(tbl, id, fault) ==
    LET result == GetItem(tbl, UserKey(id), fault) IN
    IF result.err # Nil THEN [err |-> result.err, user |-> NoUser]
    ELSE IF result.item = NoItem THEN [err |-> ErrUserNotFound, user |-> NoUser]
    ELSE [err |-> Nil, user |-> UnmarshalMap(result.item)]

\* a repository whose update refuses an id the table does not hold
RepoUpdateUser_MustExist(tbl, user, fault) ==
    IF fault = "none" /\ HasKey(MarshalMap(user)) /\ tbl[user.ID] = NoItem
    THEN [err |-> ErrUserNotFound, table |-> tbl]
    ELSE RepoCreateUser(tbl, user, fault)

RepoUpdateUser(tbl, user, fault) == RepoCreateUser(tbl, user, fault)

RepoDeleteUser(tbl, id, fault) == DeleteItem(tbl, UserKey(id), fault)

\* --------------------------------------------------------- KafkaProducer
\* a producer that sends the message again when the write failed
PublishEvent_Retry(r, key, value, ok) ==
    IF ok THEN [err |-> Nil, calls |-> 1,
                topic |-> Append(topic, [Key |-> key, Value |-> value, req |-> r]),
                logs |-> logs]
    ELSE [err |-> Nil, calls |-> 2,
          topic |-> Append(topic, [Key |-> key, Value |-> value, req |-> r]),
          logs |-> Append(logs, [line |-> "Failed to publish message", req |-> r])]

\* a producer that writes every message twice
PublishEvent_Twice(r, key, value, ok) ==
    LET m == [Key |-> key, Value |-> value, req |-> r] IN
    IF ok THEN [err |-> Nil, calls |-> 1,
                topic |-> Append(Append(topic, m), m), logs |-> logs]
    ELSE [err |-> ErrWrite, calls |-> 1, topic |-> topic,
          logs |-> Append(logs, [line |-> "Failed to publish message", req |-> r])]

\* PublishEvent(key, value): one WriteMessages call; a failure is logged and
\* returned.  ok is the outcome of the write, decided by the environment.
PublishEvent(r, key, value, ok) ==
    IF ok THEN [err |-> Nil, calls |-> 1,
                topic |-> Append(topic, [Key |-> key, Value |-> value, req |-> r]),
                logs |-> logs]
    ELSE [err |-> ErrWrite, calls |-> 1, topic |-> topic,
          logs |-> Append(logs, [line |-> "Failed to publish message", req |-> r])]

\* ----------------------------------------------------------- UserService
\* a service that publishes whatever the repository returned
AfterCommit_Always(err) == "Notifying"

\* `if err == nil { s.publishEvent(...) }`: where the request goes after its
\* repository call returned err
AfterCommit(err) == IF err = Nil THEN "Notifying" ELSE "Done"

\* a service that reports a failed publish to its caller
ServiceReturn_PublishError(err, pubErr) == IF err = Nil THEN pubErr ELSE err

\* a service that replaces the repository's error by one of its own
ServiceReturn_Wrapped(err, pubErr) ==
    IF err = Nil THEN Nil ELSE "service: operation failed"

\* `return err`: the error the service method returns, given the error of its
\* repository call and the error PublishEvent returned (Nil when not called)
ServiceReturn(err, pubErr) == err

WriteOps == {"CreateUser", "UpdateUser", "DeleteUser"}

\* the outcomes a store call of request r can have: the call is given the
\* request's ctx, and a call on a cancelled ctx returns the cancellation
CtxFaults(r) == IF req[r].cancelled THEN {"canceled"} ELSE Faults

\* requests enter the service in the order of their numbers
MayStart(r) ==
    /\ req[r].pc = "Received"
    /\ \A q \in Requests : q < r => req[q].pc # "Received"

Committed(r, op, id, user, evType, evUser, res) ==
    LET next == AfterCommit(res.err) IN
    [req EXCEPT ![r] =
        [@ EXCEPT !.pc = next, !.op = op, !.id = id, !.user = user,
                  !.evType = evType, !.evUser = evUser,
                  !.repoErr = res.err,
                  !.err = IF next = "Done" THEN ServiceReturn(res.err, Nil)
                          ELSE Nil,
                  !.status = IF next = "Done"
                             THEN HandlerStatus(op, ServiceReturn(res.err, Nil))
                             ELSE NoStatus]]

\* the record of one repository call: its arguments, the outcome the
\* environment chose, whether the table held the id before it, its results
Call(r, op, id, user, fault, err, out) ==
    [req |-> r, op |-> op, id |-> id, user |-> user, fault |-> fault,
     present |-> table[id] # NoItem, err |-> err, out |-> out]

\* UserService.CreateUser up to the return of repo.CreateUser
CreateUser(r) ==
    /\ MayStart(r)
    /\ \E user \in User, fault \in CtxFaults(r) :
         LET res == RepoCreateUser(table, user, fault) IN
         /\ table' = res.table
         /\ hist' = Append(hist, Call(r, "CreateUser", user.ID, user, fault, res.err, NoUser))
         /\ req' = Committed(r, "CreateUser", user.ID, user, "create_user", user, res)
    /\ UNCHANGED <<books, resp, keySchema, topic, logs>>

\* UserService.UpdateUser up to the return of repo.UpdateUser
UpdateUser(r) ==
    /\ MayStart(r)
    /\ \E user \in User, fault \in CtxFaults(r) :
         LET res == RepoUpdateUser(table, user, fault) IN
         /\ table' = res.table
         /\ hist' = Append(hist, Call(r, "UpdateUser", user.ID, user, fault, res.err, NoUser))
         /\ req' = Committed(r, "UpdateUser", user.ID, user, "update_user", user, res)
    /\ UNCHANGED <<books, resp, keySchema, topic, logs>>

\* UserService.DeleteUser up to the return of repo.DeleteUser
DeleteUser(r) ==
    /\ MayStart(r)
    /\ \E id \in Ids, fault \in CtxFaults(r) :
         LET res == RepoDeleteUser(table, id, fault) IN
         /\ table' = res.table
         /\ hist' = Append(hist, Call(r, "DeleteUser", id, NoUser, fault, res.err, NoUser))
         /\ req' = Committed(r, "DeleteUser", id, NoUser, "delete_user", UserWithID(id), res)
    /\ UNCHANGED <<books, resp, keySchema, topic, logs>>

\* UserService.GetUser
GetUser(r) ==
    /\ MayStart(r)
    /\ \E id \in Ids, fault \in CtxFaults(r) :
         LET res == RepoGetUser(table, id, fault) IN
         /\ hist' = Append(hist, Call(r, "GetUser", id, NoUser, fault, res.err, res.user))
         /\ req' = [req EXCEPT ![r] =
                [@ EXCEPT !.pc = "Done", !.op = "GetUser", !.id = id,
                          !.repoErr = res.err, !.out = res.user,
                          !.err = ServiceReturn(res.err, Nil),
                          !.status = HandlerStatus("GetUser", ServiceReturn(res.err, Nil))]]
    /\ UNCHANGED <<books, resp, keySchema, table, topic, logs>>

\* a publishEvent that gives up when the request's ctx is cancelled
publishEvent_Ctx(r) ==
    /\ req[r].pc = "Notifying"
    /\ \E ok \in BOOLEAN :
         LET msg == JsonMarshal(req[r].evUser)
             res == IF req[r].cancelled
                    THEN [err |-> ErrCanceled, calls |-> 0,
                          topic |-> topic, logs |-> logs]
                    ELSE PublishEvent(r, req[r].evType, msg, ok) IN
         /\ topic' = res.topic
         /\ logs' = res.logs
         /\ req' = [req EXCEPT ![r] =
                [@ EXCEPT !.pc = "Done", !.pubErr = res.err,
                          !.attempts = @ + res.calls,
                          !.err = ServiceReturn(req[r].repoErr, res.err),
                          !.status = HandlerStatus(req[r].op,
                                        ServiceReturn(req[r].repoErr, res.err))]]
    /\ UNCHANGED <<books, resp, keySchema, table, hist>>

\* a service that deletes the record again when the publish failed
publishEvent_Rollback(r) ==
    /\ req[r].pc = "Notifying"
    /\ \E ok \in BOOLEAN :
         LET msg == JsonMarshal(req[r].evUser)
             res == PublishEvent(r, req[r].evType, msg, ok) IN
         /\ topic' = res.topic
         /\ logs' = res.logs
         /\ table' = IF res.err = Nil THEN table
                     ELSE [table EXCEPT ![req[r].id] = NoItem]
         /\ req' = [req EXCEPT ![r] =
                [@ EXCEPT !.pc = "Done", !.pubErr = res.err,
                          !.attempts = @ + res.calls,
                          !.err = ServiceReturn(req[r].repoErr, res.err),
                          !.status = HandlerStatus(req[r].op,
                                        ServiceReturn(req[r].repoErr, res.err))]]
    /\ UNCHANGED <<books, resp, keySchema, hist>>

\* UserService.publishEvent and the return of the service method that
\* called it
publishEvent(r) ==
    /\ req[r].pc = "Notifying"
    /\ \E ok \in BOOLEAN :
         LET msg == JsonMarshal(req[r].evUser)
             res == PublishEvent(r, req[r].evType, msg, ok) IN
         /\ topic' = res.topic
         /\ logs' = res.logs
         /\ req' = [req EXCEPT ![r] =
                [@ EXCEPT !.pc = "Done", !.pubErr = res.err,
                          !.attempts = @ + res.calls,
                          !.err = ServiceReturn(req[r].repoErr, res.err),
                          !.status = HandlerStatus(req[r].op,
                                        ServiceReturn(req[r].repoErr, res.err))]]
    /\ UNCHANGED <<books, resp, keySchema, table, hist>>

Next ==
    \/ \E r \in Requests : CreateUser(r)
    \/ \E r \in Requests : UpdateUser(r)
    \/ \E r \in Requests : DeleteUser(r)
    \/ \E r \in Requests : GetUser(r)
    \/ \E r \in Requests : publishEvent(r)

Spec == Init /\ [][Next]_vars

\* ------------------------------------------- cancellation, unanswered calls
\* the caller goes away: the ctx of an in-flight request (r.Context()) is
\* cancelled
Cancel(r) ==
    /\ req[r].pc \in {"Received", "Committing", "Notifying"}
    /\ ~req[r].cancelled
    /\ req' = [req EXCEPT ![r] = [@ EXCEPT !.cancelled = TRUE]]
    /\ UNCHANGED <<books, resp, keySchema, table, topic, logs, hist>>

\* the store does not answer the repository call of request r: the ctx the
\* handler passes carries no deadline and the service sets none, so the call
\* stays blocked
Hang(r) ==
    /\ MayStart(r)
    /\ ~req[r].cancelled
    /\ \E op \in WriteOps \cup {"GetUser"}, user \in User :
         req' = [req EXCEPT ![r] =
                   [@ EXCEPT !.pc = "Committing", !.op = op, !.id = user.ID,
                             !.user = IF op \in {"CreateUser", "UpdateUser"}
                                      THEN user ELSE NoUser]]
    /\ UNCHANGED <<books, resp, keySchema, table, topic, logs, hist>>

\* the blocked store call of request r returns because its ctx has been
\* cancelled; the service returns that error
AbortCommit(r) ==
    /\ req[r].pc = "Committing"
    /\ req[r].cancelled
    /\ LET res == [err |-> FaultErr("canceled"), table |-> table] IN
         /\ hist' = Append(hist, Call(r, req[r].op, req[r].id, req[r].user,
                                      "canceled", res.err, NoUser))
         /\ req' = Committed(r, req[r].op, req[r].id, req[r].user, "", NoUser, res)
    /\ UNCHANGED <<books, resp, keySchema, table, topic, logs>>

EnvNext ==
    \/ \E r \in EnvRequests : CreateUser(r)
    \/ \E r \in EnvRequests : UpdateUser(r)
    \/ \E r \in EnvRequests : DeleteUser(r)
    \/ \E r \in EnvRequests : GetUser(r)
    \/ \E r \in EnvRequests : publishEvent(r)
    \/ \E r \in EnvRequests : Cancel(r)
    \/ \E r \in EnvRequests : Hang(r)
    \/ \E r \in EnvRequests : AbortCommit(r)

EnvSpec == Init /\ [][EnvNext]_vars

\* a goroutine that can take a step takes it; nothing obliges the caller to
\* cancel or the store to stay silent
EnvFairness ==
    \A r \in EnvRequests :
        /\ WF_vars(CreateUser(r) \/ UpdateUser(r) \/ DeleteUser(r) \/ GetUser(r))
        /\ WF_vars(publishEvent(r))
        /\ WF_vars(AbortCommit(r))

FairEnvSpec == EnvSpec /\ EnvFairness

\* -------------------------------------------------------- GET /book/{isbn}
userVars == <<keySchema, table, topic, logs, req, hist>>

\* an error body whose message names the isbn of the unit test
NotFoundBody_Fixed(isbn) ==
    [code |-> "001", message |-> <<"no book with ISBN ", "123456789">>]

\* json.Marshal(jsonError{Code: "001",
\*     Message: fmt.Sprintf("no book with ISBN %s", isbn)})
NotFoundBody(isbn) ==
    [code |-> "001", message |-> <<"no book with ISBN ", isbn>>]

\* row.Scan into a Book: YearPublished is a uint16
ScanOK(row) == row # NoBook /\ row.year_published \in 0..65535

\* json.Marshal(book): one member per field of Book
BookBody(row) ==
    [isbn |-> row.isbn, name |-> row.name, image |-> row.image,
     genre |-> row.genre, year_published |-> row.year_published]

\* INSERT INTO book ... of the end-to-end test
InsertBook(isbn) ==
    /\ \E row \in BookRows(isbn) : books' = [books EXCEPT ![isbn] = row]
    /\ UNCHANGED <<resp, userVars>>

\* GetBookHandler.ServeHTTP: the handler NewGetBook returns holds no
\* BookRetriever and answers every isbn with the error body
ServeHTTP(isbn) ==
    /\ resp' = [route |-> "handler", isbn |-> isbn,
                row |-> books[isbn],
                status |-> StatusNotFound, body |-> NotFoundBody(isbn)]
    /\ UNCHANGED <<books, userVars>>

\* the route r.Get("/book/{isbn}", ...) of main
MainGetBook(isbn) ==
    /\ resp' = IF ~ScanOK(books[isbn])
               THEN [route |-> "main", isbn |-> isbn,
                     row |-> books[isbn],
                     status |-> StatusNotFound, body |-> NotFoundBody(isbn)]
               ELSE [route |-> "main", isbn |-> isbn, row |-> books[isbn],
                     status |-> StatusOK, body |-> BookBody(books[isbn])]
    /\ UNCHANGED <<books, userVars>>

BookNext ==
    \/ \E isbn \in ISBNs : InsertBook(isbn)
    \/ \E isbn \in ISBNs : ServeHTTP(isbn)
    \/ \E isbn \in ISBNs : MainGetBook(isbn)

BookSpec == Init /\ [][BookNext]_vars

\* ------------------------------------------------------------ properties
\* messages of request r on the topic, lines of request r in the log
MessagesOf(r) == {i \in DOMAIN topic : topic[i].req = r}

LogsOf(r) == {i \in DOMAIN logs : logs[i].req = r}

\* the repository call of request r
CallsOf(r) == {i \in DOMAIN hist : hist[i].req = r}

\* C1: a request reaches publishEvent (is about to publish, has attempted a
\* publish, has a message on the topic or a publish line in the log) only
\* when its repository call has returned nil; a request whose repository
\* call failed never publishes.
C1_PublishOnlyAfterCommit ==
    \A r \in Requests :
        LET touched == \/ req[r].pc = "Notifying"
                       \/ req[r].attempts > 0
                       \/ MessagesOf(r) # {}
                       \/ LogsOf(r) # {}
        IN /\ touched => /\ req[r].op \in WriteOps
                          /\ \E i \in CallsOf(r) : hist[i].err = Nil
           /\ (\E i \in CallsOf(r) : hist[i].err # Nil) => ~touched

\* a write whose repository call failed is done, and another has published
C1_Witness ==
    /\ \E r \in Requests :
          /\ req[r].pc = "Done" /\ req[r].op \in WriteOps
          /\ \E i \in CallsOf(r) : hist[i].err # Nil
    /\ \E r \in Requests : req[r].op \in WriteOps /\ MessagesOf(r) # {}

\* C2: a write whose repository call succeeded and whose publish failed
\* returns nil to its caller.
C2_PublishFailureNotSurfaced ==
    \A r \in Requests :
        ( /\ req[r].pc = "Done" /\ req[r].op \in WriteOps
          /\ \E i \in CallsOf(r) : hist[i].err = Nil
          /\ req[r].pubErr # Nil )
        => req[r].err = Nil

\* a create and an update have each committed, failed to publish (the
\* failure is in the log) and returned
C2_Witness ==
    \A op \in {"CreateUser", "UpdateUser"} :
        \E r \in Requests :
            /\ req[r].pc = "Done" /\ req[r].op = op
            /\ req[r].pubErr = ErrWrite /\ LogsOf(r) # {}

\* C3: when the repository call of a request fails, the service returns
\* that very error.
C3_StoreErrorUnchanged ==
    \A i \in DOMAIN hist :
        hist[i].err # Nil =>
            /\ req[hist[i].req].pc = "Done"
            /\ req[hist[i].req].err = hist[i].err

\* a write failed with a store error and a read failed with another
C3_Witness ==
    /\ \E i \in DOMAIN hist :
          hist[i].op \in WriteOps /\ hist[i].err = ErrRequest
    /\ \E i \in DOMAIN hist :
          hist[i].op = "GetUser" /\ hist[i].err \in {ErrUserNotFound, ErrValidation}

\* no call between positions i and j of hist writes the id of call i
NoWriteBetween(i, j) ==
    \A k \in DOMAIN hist :
        (i < k /\ k < j) => ~(hist[k].op \in WriteOps /\ hist[k].id = hist[i].id)

\* C4: a successful Create(E) followed by Read(E.id), with no write to that
\* id in between and the store reachable, returns a record equal to E.
C4_CreateThenRead ==
    \A i, j \in DOMAIN hist :
        ( /\ i < j
          /\ hist[i].op = "CreateUser" /\ hist[i].err = Nil
          /\ hist[j].op = "GetUser" /\ hist[j].id = hist[i].id
          /\ hist[j].fault = "none"
          /\ NoWriteBetween(i, j) )
        => (hist[j].err = Nil /\ hist[j].out = hist[i].user)

\* C5: with the store reachable, Delete(I) called twice in a row succeeds
\* both times, and a Read(I) that follows fails with "user not found".
C5_DeleteIdempotent ==
    \A i \in DOMAIN hist :
        ( /\ i + 1 \in DOMAIN hist
          /\ hist[i].op = "DeleteUser" /\ hist[i].fault = "none"
          /\ hist[i + 1].op = "DeleteUser" /\ hist[i + 1].fault = "none"
          /\ hist[i + 1].id = hist[i].id )
        => /\ hist[i].err = Nil
           /\ hist[i + 1].err = Nil
           /\ ( /\ i + 2 \in DOMAIN hist
                /\ hist[i + 2].op = "GetUser" /\ hist[i + 2].fault = "none"
                /\ hist[i + 2].id = hist[i].id )
              => hist[i + 2].err = ErrUserNotFound

\* C6: with the store reachable, UpdateUser on an id the table does not hold
\* succeeds, and a Read of that id that follows (no write to the id in
\* between) returns the updated entity.
C6_UpdateUpserts ==
    \A i \in DOMAIN hist :
        ( /\ hist[i].op = "UpdateUser" /\ hist[i].fault = "none"
          /\ ~hist[i].present )
        => /\ hist[i].err = Nil
           /\ \A j \in DOMAIN hist :
                 ( /\ i < j
                   /\ hist[j].op = "GetUser" /\ hist[j].id = hist[i].id
                   /\ hist[j].fault = "none"
                   /\ NoWriteBetween(i, j) )
                 => (hist[j].err = Nil /\ hist[j].out = hist[i].user)

\* C7: with the store reachable, DeleteUser on an id the table does not hold
\* succeeds, and once its publish has been accepted the topic holds exactly
\* one message of the request, of type delete_user, whose payload has the
\* single member id.
C7_DeleteMissingTombstone ==
    \A i \in DOMAIN hist :
        LET r == hist[i].req IN
        ( /\ hist[i].op = "DeleteUser" /\ hist[i].fault = "none"
          /\ ~hist[i].present )
        => /\ hist[i].err = Nil
           /\ (req[r].pc = "Done" /\ req[r].pubErr = Nil) =>
                 /\ req[r].err = Nil
                 /\ Cardinality(MessagesOf(r)) = 1
                 /\ \A m \in MessagesOf(r) :
                       /\ topic[m].Key = "delete_user"
                       /\ DOMAIN topic[m].Value = {"id"}
                       /\ topic[m].Value.id = JsonString(hist[i].id)

\* C8: a CreateUser whose repository call succeeded and whose publish was
\* accepted returns nil, and the topic holds exactly one message of the
\* request: its type is create_user and its payload is the JSON object of
\* the user, whose id member is the user's ID.
C8_CreateEmitsOneEvent ==
    \A r \in Requests :
        ( /\ req[r].pc = "Done" /\ req[r].op = "CreateUser"
          /\ \E i \in CallsOf(r) : hist[i].err = Nil
          /\ req[r].pubErr = Nil )
        => /\ req[r].err = Nil
           /\ Cardinality(MessagesOf(r)) = 1
           /\ \A m \in MessagesOf(r) :
                 LET v == topic[m].Value
                     u == req[r].user IN
                 /\ topic[m].Key = "create_user"
                 /\ DOMAIN v = {"id", "name", "email", "policies"}
                 /\ v.id.t = "string" /\ v.id.s = u.ID
                 /\ v.name.t = "string" /\ v.name.s = u.Name
                 /\ v.email.t = "string" /\ v.email.s = u.Email
                 /\ IF u.Policies.isNil THEN v.policies.t = "null"
                    ELSE v.policies.t = "array" /\ v.policies.a = u.Policies.elems

\* two creates have each been stored and published, one of a user with a
\* nil slice and an empty field
C8_Witness ==
    /\ keySchema = "id"
    /\ \E r, q \in Requests :
          /\ r # q
          /\ req[r].pc = "Done" /\ req[r].op = "CreateUser"
          /\ req[q].pc = "Done" /\ req[q].op = "CreateUser"
          /\ MessagesOf(r) # {} /\ MessagesOf(q) # {}
          /\ req[r].user.Policies.isNil /\ req[r].user.Email = ""
          /\ ~req[q].user.Policies.isNil

\* C9: every message on the topic has the id of its entity as its key.
C9_KeyIsSubjectId ==
    \A i \in DOMAIN topic : topic[i].Key = topic[i].Value.id.s

\* C10: a request makes at most one publish attempt; each attempt left one
\* message on the topic or one line in the log, and a failed publish left a
\* line in the log and no message.
C10_SinglePublishAttempt ==
    \A r \in Requests :
        /\ req[r].attempts <= 1
        /\ Cardinality(MessagesOf(r)) + Cardinality(LogsOf(r)) = req[r].attempts
        /\ (req[r].pc = "Done" /\ \E i \in CallsOf(r) : hist[i].op \in WriteOps /\ hist[i].err = Nil)
             => req[r].attempts = 1
        /\ req[r].pubErr # Nil => (LogsOf(r) # {} /\ MessagesOf(r) = {})

\* a request whose publish failed is done, and a later request has published
C10_Witness ==
    \E r, q \in Requests :
        /\ r < q
        /\ req[r].pc = "Done" /\ req[r].pubErr = ErrWrite /\ LogsOf(r) # {}
        /\ req[q].pc = "Done" /\ MessagesOf(q) # {}

\* the successful writes of id k, as positions of hist
WritesOf(k) ==
    {i \in DOMAIN hist :
        hist[i].op \in WriteOps /\ hist[i].id = k /\ hist[i].err = Nil}

\* the item a successful write leaves under its id
Written(c) == IF c.op = "DeleteUser" THEN NoItem ELSE MarshalMap(c.user)

\* position i is the last successful write of its id
IsLastWrite(i) == \A j \in WritesOf(hist[i].id) : j <= i

\* C11: a write whose commit succeeded and whose publish failed keeps its
\* mutation in the table: as long as no later write of the id has landed,
\* the table holds for the id what the commit left there.
C11_NoRollback ==
    \A i \in DOMAIN hist :
        LET r == hist[i].req IN
        ( /\ i \in WritesOf(hist[i].id)
          /\ req[r].pc = "Done" /\ req[r].pubErr # Nil
          /\ IsLastWrite(i) )
        => table[hist[i].id] = Written(hist[i])

\* a create has stored a record, its publish has failed, the request has
\* returned and the record is in the table
C11_Witness ==
    \E i \in DOMAIN hist :
        /\ hist[i].op = "CreateUser" /\ hist[i].err = Nil
        /\ req[hist[i].req].pc = "Done" /\ req[hist[i].req].pubErr = ErrWrite
        /\ IsLastWrite(i)
        /\ table[hist[i].id] # NoItem

\* the last successful write of id k (WritesOf(k) is not empty)
LastWrite(k) == CHOOSE i \in WritesOf(k) : \A j \in WritesOf(k) : j <= i

\* C14: whatever the interleaving of the requests, the table holds for every
\* id exactly what the last commit that landed on the id wrote (the whole
\* item of a create or update, nothing after a delete), and nothing when no
\* write of the id has landed.
C14_LastWriterWins ==
    \A k \in Ids :
        table[k] = IF WritesOf(k) = {} THEN NoItem
                   ELSE Written(hist[LastWrite(k)])

\* a write of an id has landed while an earlier write of the same id, of
\* another user, was between its commit and its publish; the table holds
\* the later one
C14_Witness ==
    \E i, j \in DOMAIN hist :
        /\ i < j /\ i \in WritesOf(hist[i].id) /\ j \in WritesOf(hist[i].id)
        /\ hist[i].user # hist[j].user
        /\ req[hist[i].req].pc = "Notifying"
        /\ table[hist[i].id] = MarshalMap(hist[j].user)
        /\ table[hist[i].id] # MarshalMap(hist[i].user)

\* C18: from the table of every reachable state and for every user and
\* every outcome of the store call, the repository's UpdateUser returns what
\* its CreateUser returns and leaves the same table; when it succeeds the
\* item of the user's id is the user's item, whether the table held the id
\* or not, and every other item is as before.
C18_UpdateIsCreate ==
    \A user \in User, fault \in Faults :
        LET u == RepoUpdateUser(table, user, fault)
            c == RepoCreateUser(table, user, fault) IN
        /\ u.err = c.err
        /\ u.table = c.table
        /\ u.err = Nil => u.table = [table EXCEPT ![user.ID] = MarshalMap(user)]
        /\ u.err # Nil => u.table = table
        /\ (fault = "none" /\ keySchema = "id") => u.err = Nil

\* an update has created a record and another update has replaced a record
\* by a different one
C18_Witness ==
    \E i, j \in DOMAIN hist :
        /\ hist[i].op = "UpdateUser" /\ hist[i].err = Nil /\ ~hist[i].present
        /\ hist[j].op = "UpdateUser" /\ hist[j].err = Nil /\ hist[j].present
        /\ hist[j].user # hist[i].user
        /\ table[hist[j].id] = MarshalMap(hist[j].user)

\* the requests whose messages for id k are on the topic, in stream order,
\* and the requests whose writes of id k landed, in commit order
RECURSIVE EventReqs(_, _)
EventReqs(k, n) ==
    IF n = 0 THEN <<>>
    ELSE IF topic[n].Value.id.s = k
         THEN Append(EventReqs(k, n - 1), topic[n].req)
         ELSE EventReqs(k, n - 1)

RECURSIVE CommitReqs(_, _)
CommitReqs(k, n) ==
    IF n = 0 THEN <<>>
    ELSE IF n \in WritesOf(k)
         THEN Append(CommitReqs(k, n - 1), hist[n].req)
         ELSE CommitReqs(k, n - 1)

\* every request is done and no publish has failed
AllPublished ==
    \A r \in Requests : req[r].pc = "Done" /\ req[r].pubErr = Nil

\* the last message for id k on the topic carries the record the table
\* holds for k, or the payload of a delete when the table holds none
LastEventMatches(k) ==
    LET ev == EventReqs(k, Len(topic))
        last == CHOOSE n \in DOMAIN topic :
                    /\ topic[n].Value.id.s = k
                    /\ \A m \in DOMAIN topic : topic[m].Value.id.s = k => m <= n
    IN ev # <<>> =>
         topic[last].Value =
             IF table[k] = NoItem THEN JsonMarshal(UserWithID(k))
             ELSE JsonMarshal(UnmarshalMap(table[k]))

\* C19 as stated: once every request is done and every publish succeeded,
\* the messages of each id are on the topic in the order their commits
\* landed, and the last of them matches the table.
C19_EventsInCommitOrder ==
    AllPublished =>
        \A k \in Ids :
            /\ EventReqs(k, Len(topic)) = CommitReqs(k, Len(hist))
            /\ LastEventMatches(k)

\* C19 as amended: once every request is done and every publish succeeded,
\* the topic holds one message per landed write of each id, and if these
\* messages are in the order the commits landed, the last of them matches
\* the table.
C19_MatchesWhenInCommitOrder ==
    AllPublished =>
        \A k \in Ids :
            LET ev == EventReqs(k, Len(topic))
                cm == CommitReqs(k, Len(hist)) IN
            /\ Len(ev) = Len(cm)
            /\ {ev[n] : n \in DOMAIN ev} = {cm[n] : n \in DOMAIN cm}
            /\ ev = cm => LastEventMatches(k)

\* two writes of different users to one id have landed and been published,
\* their messages are on the topic in commit order, and the last carries
\* the stored record
C19_Witness ==
    /\ AllPublished
    /\ \E k \in Ids :
          LET ev == EventReqs(k, Len(topic)) IN
          /\ Len(ev) >= 2
          /\ ev = CommitReqs(k, Len(hist))
          /\ req[ev[1]].user # req[ev[2]].user
          /\ table[k] # NoItem
          /\ LastEventMatches(k)

\* C15: a read that ends with "user not found" is answered 404, a create or
\* a read that ends with the store's request error is answered 500, and a
\* successful create is answered 201.
C15_StatusByErrorKind ==
    \A r \in Requests :
        (req[r].pc = "Done" /\ req[r].op \in {"CreateUser", "GetUser"}) =>
            /\ req[r].err = ErrUserNotFound => req[r].status = StatusNotFound
            /\ req[r].err = ErrRequest => req[r].status = StatusInternalServerError
            /\ (req[r].op = "CreateUser" /\ req[r].err = Nil)
                 => req[r].status = StatusCreated

\* C12: every request that has entered the service eventually returns.
C12_EveryRequestDone ==
    \A r \in EnvRequests : (req[r].pc # "Received") ~> (req[r].pc = "Done")

\* C13: a store call made on a cancelled ctx fails with the cancellation,
\* the request returns that error and publishes nothing; a write whose
\* commit succeeded has made its publish attempt by the time it returns,
\* cancelled or not, and a cancelled request waiting to publish can publish.
C13_CancelNeverSkipsNotify ==
    \A r \in Requests :
        /\ \A i \in CallsOf(r) :
              hist[i].fault = "canceled" =>
                  /\ hist[i].err = ErrCanceled
                  /\ req[r].pc = "Done" /\ req[r].err = ErrCanceled
                  /\ req[r].attempts = 0 /\ MessagesOf(r) = {}
                  /\ i \notin WritesOf(hist[i].id)
        /\ ( /\ req[r].pc = "Done" /\ req[r].op \in WriteOps
             /\ \E i \in CallsOf(r) : hist[i].err = Nil )
           => (req[r].attempts = 1 /\ req[r].pubErr # ErrCanceled)
        /\ (req[r].pc = "Notifying" /\ req[r].cancelled)
           => ENABLED publishEvent(r)

\* one request was cancelled after its commit, has returned and its message
\* is on the topic; another was cancelled before its store call and was
\* aborted
C13_Witness ==
    /\ \E r \in Requests :
          /\ req[r].cancelled /\ req[r].pc = "Done"
          /\ \E i \in CallsOf(r) : hist[i].err = Nil /\ hist[i].op \in WriteOps
          /\ MessagesOf(r) # {}
    /\ \E q \in Requests :
          /\ req[q].pc = "Done" /\ req[q].op \in WriteOps
          /\ \E i \in CallsOf(q) : hist[i].fault = "canceled"

\* C16: a GET /book/{isbn} for an isbn the book table holds no row for is
\* answered 404 with the body {code: "001", message: "no book with ISBN
\* <isbn>"} naming that isbn, by the handler and by main's route.
C16_NoBookIs404 ==
    (resp.route # "none" /\ resp.row = NoBook) =>
        /\ resp.status = StatusNotFound
        /\ DOMAIN resp.body = {"code", "message"}
        /\ resp.body.code = "001"
        /\ resp.body.message = <<"no book with ISBN ", resp.isbn>>

\* the handler has answered a GET for an isbn without a row, other than the
\* one of the unit test, while the table holds a row for another isbn
C16_Witness ==
    /\ resp.route = "handler" /\ resp.row = NoBook
    /\ resp.isbn = "987654321" /\ resp.status = StatusNotFound
    /\ books["123456789"] # NoBook

\* C17: a GET /book/{isbn} for an isbn the book table holds a row for is
\* answered 200 with a body carrying exactly that row's isbn, name, image,
\* genre and year_published.
C17_StoredBookIs200 ==
    (resp.route # "none" /\ resp.row # NoBook) =>
        /\ resp.status = StatusOK
        /\ DOMAIN resp.body = {"isbn", "name", "image", "genre", "year_published"}
        /\ resp.body.isbn = resp.isbn /\ resp.row.isbn = resp.isbn
        /\ resp.body.name = resp.row.name
        /\ resp.body.image = resp.row.image
        /\ resp.body.genre = resp.row.genre
        /\ resp.body.year_published = resp.row.year_published

====
